---------------------------- MODULE Spec2Model ----------------------------
(***************************************************************************)
(* Model of the hakey catalogue API: the game payload validator, the       *)
(* partial-update mapper and the request handlers of the relational        *)
(* (MySQL) server, of its older copy, and of the document-store            *)
(* (Firestore) server.                                                     *)
(***************************************************************************)
EXTENDS Integers, Sequences, FiniteSets, TLC

(***************************************************************************)
(* JavaScript values as they arrive in a decoded JSON body.  A text is a   *)
(* sequence of one-character strings, so that trim() and the date pattern  *)
(* are computed from its characters.                                       *)
(***************************************************************************)
Undefined == [t |-> "undefined"]
Null == [t |-> "null"]
Num(n) == [t |-> "number", n |-> n]
Str(s) == [t |-> "string", s |-> s]
Bool(b) == [t |-> "boolean", b |-> b]
Arr(items) == [t |-> "array", items |-> items]
Obj(props) == [t |-> "object", props |-> props]

\* The text JSON.stringify(v) produces: a text, whose content encodes v.
JSONstringify(v) == [t |-> "string", json |-> v]

\* typeof v
typeof(v) ==
  CASE v.t = "undefined" -> "undefined"
    [] v.t = "null" -> "object"
    [] v.t = "array" -> "object"
    [] v.t = "object" -> "object"
    [] OTHER -> v.t

\* Array.isArray(v)
isArray(v) == v.t = "array"

\* the text is one of JSON.stringify, never empty
IsJsonText(v) == v.t = "string" /\ "json" \in DOMAIN v

\* !!v
Truthy(v) ==
  CASE v.t = "undefined" -> FALSE
    [] v.t = "null" -> FALSE
    [] v.t = "number" -> v.n # 0
    [] v.t = "string" -> IF IsJsonText(v) THEN TRUE ELSE v.s # <<>>
    [] v.t = "boolean" -> v.b
    [] OTHER -> TRUE

Whitespace == {" "}
Digits == {"0", "1", "2", "3", "4", "5", "6", "7", "8", "9"}

\* v.trim() === "" for a text v
TrimIsEmpty(v) ==
  IF IsJsonText(v) THEN FALSE ELSE \A i \in 1..Len(v.s) : v.s[i] \in Whitespace

\* the pattern without its anchor at the end of the text
DatePatternUnanchored(v) ==
  IF IsJsonText(v) THEN FALSE
  ELSE /\ Len(v.s) >= 10
       /\ \A i \in {1, 2, 3, 4, 6, 7, 9, 10} : v.s[i] \in Digits
       /\ v.s[5] = "-"
       /\ v.s[8] = "-"

\* /^\d{4}-\d{2}-\d{2}$/.test(v) for a text v
DatePattern(v) ==
  IF IsJsonText(v) THEN FALSE
  ELSE /\ Len(v.s) = 10
       /\ \A i \in {1, 2, 3, 4, 6, 7, 9, 10} : v.s[i] \in Digits
       /\ v.s[5] = "-"
       /\ v.s[8] = "-"

\* v.every((p) => typeof p === "string") for an array v
everyString(v) == \A i \in 1..Len(v.items) : typeof(v.items[i]) = "string"

(***************************************************************************)
(* Field names.                                                            *)
(***************************************************************************)
allowed ==
  << "title", "price", "originalPrice", "discount", "image", "category",
     "platform", "rating", "description", "requirements", "features",
     "releaseDate", "publisher", "featured" >>

GameFields == {allowed[i] : i \in 1..Len(allowed)}
requiredProps == << "os", "processor", "memory", "graphics", "storage" >>
ReqProps == {requiredProps[i] : i \in 1..Len(requiredProps)}
allowedUsuario == << "nombre", "email", "password" >>
UserFields == {allowedUsuario[i] : i \in 1..Len(allowedUsuario)}
OtherKeys == {"unknownField", "image_url"}
Keys == GameFields \cup UserFields \cup OtherKeys

\* requirements[prop] for a value that is not null or undefined
Prop(v, p) == IF v.t = "object" THEN v.props[p] ELSE Undefined

Push(cond, msg) == IF cond THEN <<msg>> ELSE <<>>

\* the outcome of a call: a returned list of defects, or a thrown TypeError
Returned(errors) == [threw |-> FALSE, errors |-> errors]
Threw == [threw |-> TRUE, errors |-> <<>>]

(***************************************************************************)
(* validateGamePayload, full branch (requireAll = true).                   *)
(***************************************************************************)
fullText(v, msg) == Push(~Truthy(v) \/ typeof(v) # "string", msg)

fullMin(v, msg) ==
  Push(v = Undefined \/ typeof(v) # "number" \/ v.n < 0, msg)

\* fullRange with the upper bound excluded
fullRangeExclusive(v, hi, msg) ==
  Push(v = Undefined \/ typeof(v) # "number" \/ v.n < 0 \/ v.n >= hi, msg)

fullRange(v, hi, msg) ==
  Push(v = Undefined \/ typeof(v) # "number" \/ v.n < 0 \/ v.n > hi, msg)

\* fullArray refusing a sequence with zero elements
fullArrayRejectsEmpty(v, msg) ==
  Push(~Truthy(v) \/ ~isArray(v) \/ ~everyString(v) \/ Len(v.items) = 0, msg)

fullArray(v, msg) ==
  Push(~Truthy(v) \/ ~isArray(v) \/ ~everyString(v), msg)

fullReqProp(r, p) ==
  Push(~Truthy(Prop(r, p)) \/ typeof(Prop(r, p)) # "string",
       "requirements." \o p \o " (string)")

fullRequirements(r) ==
  IF ~Truthy(r) \/ typeof(r) # "object"
  THEN <<"requirements (object)">>
  ELSE fullReqProp(r, "os") \o fullReqProp(r, "processor")
       \o fullReqProp(r, "memory") \o fullReqProp(r, "graphics")
       \o fullReqProp(r, "storage")

fullDate(v, msg) ==
  Push(~Truthy(v) \/ typeof(v) # "string" \/ ~DatePattern(v), msg)

\* fullBoolean without its test for an absent field
fullBooleanSkipsAbsent(v, msg) ==
  Push(v # Undefined /\ typeof(v) # "boolean", msg)

fullBoolean(v, msg) == Push(v = Undefined \/ typeof(v) # "boolean", msg)

validateFull(body) ==
  fullText(body.title, "title (string)")
  \o fullMin(body.price, "price (number >= 0)")
  \o fullMin(body.originalPrice, "originalPrice (number >= 0)")
  \o fullRange(body.discount, 100, "discount (number 0-100)")
  \o fullText(body.image, "image (string URL)")
  \o fullText(body.category, "category (string)")
  \o fullArray(body.platform, "platform (array of strings)")
  \o fullRange(body.rating, 5, "rating (number 0-5)")
  \o fullText(body.description, "description (string)")
  \o fullRequirements(body.requirements)
  \o fullArray(body.features, "features (array of strings)")
  \o fullDate(body.releaseDate, "releaseDate (YYYY-MM-DD)")
  \o fullText(body.publisher, "publisher (string)")
  \o fullBoolean(body.featured, "featured (boolean)")

(***************************************************************************)
(* validateGamePayload, partial branch (requireAll = false).               *)
(***************************************************************************)
partialText(v, msg) ==
  Push(v # Undefined /\ (typeof(v) # "string" \/ TrimIsEmpty(v)), msg)

partialMin(v, msg) ==
  Push(v # Undefined /\ (typeof(v) # "number" \/ v.n < 0), msg)

\* partialRange with the upper bound excluded
partialRangeExclusive(v, hi, msg) ==
  Push(v # Undefined /\ (typeof(v) # "number" \/ v.n < 0 \/ v.n >= hi), msg)

partialRange(v, hi, msg) ==
  Push(v # Undefined /\ (typeof(v) # "number" \/ v.n < 0 \/ v.n > hi), msg)

partialArray(v, msg) ==
  Push(v # Undefined /\ (~isArray(v) \/ ~everyString(v)), msg)

partialReqProp(r, p) ==
  Push(Prop(r, p) # Undefined /\ typeof(Prop(r, p)) # "string",
       "requirements." \o p \o " debe ser un string")

RECURSIVE partialReqLoop(_, _)
partialReqLoop(r, i) ==
  IF i > Len(requiredProps) THEN <<>>
  ELSE partialReqProp(r, requiredProps[i]) \o partialReqLoop(r, i + 1)

\* reading requirements[prop] of null throws a TypeError
partialRequirementsThrows(r) ==
  r # Undefined /\ ~(typeof(r) # "object" \/ isArray(r)) /\ r = Null

partialRequirements(r) ==
  IF r = Undefined THEN <<>>
  ELSE IF typeof(r) # "object" \/ isArray(r)
       THEN <<"requirements debe ser un objeto">>
       ELSE partialReqLoop(r, 1)

partialDate(v, msg) ==
  Push(v # Undefined /\ (typeof(v) # "string" \/ ~DatePattern(v)), msg)

partialBoolean(v, msg) == Push(v # Undefined /\ typeof(v) # "boolean", msg)

validatePartial(body) ==
  partialText(body.title, "title debe ser un string no vacio")
  \o partialMin(body.price, "price debe ser un numero >= 0")
  \o partialMin(body.originalPrice, "originalPrice debe ser un numero >= 0")
  \o partialRange(body.discount, 100, "discount debe ser un numero entre 0-100")
  \o partialText(body.image, "image debe ser un string no vacio")
  \o partialText(body.category, "category debe ser un string no vacio")
  \o partialArray(body.platform, "platform debe ser un array de strings")
  \o partialRange(body.rating, 5, "rating debe ser un numero entre 0-5")
  \o partialText(body.description, "description debe ser un string no vacio")
  \o partialRequirements(body.requirements)
  \o partialArray(body.features, "features debe ser un array de strings")
  \o partialDate(body.releaseDate, "releaseDate debe tener formato YYYY-MM-DD")
  \o partialText(body.publisher, "publisher debe ser un string no vacio")
  \o partialBoolean(body.featured, "featured debe ser un boolean")

validateGamePayload(body, requireAll) ==
  IF requireAll THEN Returned(validateFull(body))
  ELSE IF partialRequirementsThrows(body.requirements) THEN Threw
       ELSE Returned(validatePartial(body))


(***************************************************************************)
(* validateGamePayload of the older copy of the relational server: the     *)
(* same full branch, a shorter partial branch.                             *)
(***************************************************************************)
validatePartialV2(body) ==
  Push(Truthy(body.requirements) /\ typeof(body.requirements) # "object",
       "requirements (invalid)")
  \o Push(Truthy(body.platform)
          /\ (~isArray(body.platform) \/ ~everyString(body.platform)),
          "platform (array of strings)")
  \o Push(Truthy(body.features)
          /\ (~isArray(body.features) \/ ~everyString(body.features)),
          "features (array of strings)")
  \o partialRange(body.rating, 5, "rating (number 0-5)")
  \o partialMin(body.price, "price (number >= 0)")
  \o partialMin(body.originalPrice, "originalPrice (number >= 0)")
  \o partialRange(body.discount, 100, "discount (number 0-100)")
  \o Push(Truthy(body.releaseDate)
          /\ (typeof(body.releaseDate) # "string"
              \/ ~DatePattern(body.releaseDate)),
          "releaseDate (YYYY-MM-DD)")
  \o partialBoolean(body.featured, "featured (boolean)")

validateGamePayloadV2(body, requireAll) ==
  IF requireAll THEN Returned(validateFull(body))
  ELSE Returned(validatePartialV2(body))

(***************************************************************************)
(* Request bodies: a base body and a bounded number of edits of one key.   *)
(***************************************************************************)
MaxEdits == 1
MaxId == 2
MaxRequests == 4

ABC == <<"a", "b", "c">>
SPACE == <<" ">>
DATE == <<"2", "0", "2", "4", "-", "0", "2", "-", "3", "0">>
DATE11 == DATE \o <<"0">>
SLASHED == <<"2", "0", "2", "4", "/", "0", "2", "/", "3", "0">>
MAIL == <<"a", "@", "b">>
MAIL2 == <<"c", "@", "d">>

NoProps == [p \in ReqProps |-> Undefined]
ReqOK == Obj([p \in ReqProps |-> Str(ABC)])
OnlyProp(p, v) == Obj([NoProps EXCEPT ![p] = v])
SetProp(r, p, v) == Obj([r.props EXCEPT ![p] = v])

SubValues == {Null, Num(5), Str(<<>>), Str(SPACE), Str(ABC)}
ReqObjects ==
  {ReqOK}
  \cup {OnlyProp(p, v) : p \in ReqProps, v \in SubValues}
  \cup {SetProp(ReqOK, p, v) : p \in ReqProps, v \in SubValues \cup {Undefined}}

TypeSamples ==
  {Null, Num(5), Str(ABC), Bool(TRUE), Arr(<<Str(ABC)>>), Obj(NoProps)}

TextFields == {"title", "image", "category", "description", "publisher"}

FieldValues(f) ==
  TypeSamples \cup
  CASE f \in TextFields -> {Str(<<>>), Str(SPACE)}
    [] f \in {"price", "originalPrice"} -> {Num(-1), Num(0)}
    [] f = "discount" -> {Num(-1), Num(0), Num(100), Num(101)}
    [] f = "rating" -> {Num(-1), Num(0), Num(6)}
    [] f \in {"platform", "features"} ->
         {Arr(<<>>), Arr(<<Num(5)>>), Arr(<<Str(ABC), Null>>)}
    [] f = "requirements" -> ReqObjects \cup {Arr(<<>>)}
    [] f = "releaseDate" ->
         {Str(DATE), Str(DATE11), Str(SLASHED), Str(<<>>), Str(SPACE)}
    [] f = "featured" -> {Bool(FALSE)}
    [] f \in UserFields -> {Str(<<>>), Str(MAIL), Str(MAIL2)}
    [] OTHER -> {}

EmptyBody == [k \in Keys |-> Undefined]

ValidGameFields ==
  [title |-> Str(ABC), price |-> Num(5), originalPrice |-> Num(5),
   discount |-> Num(0), image |-> Str(ABC), category |-> Str(ABC),
   platform |-> Arr(<<Str(ABC)>>), rating |-> Num(5),
   description |-> Str(ABC), requirements |-> ReqOK, features |-> Arr(<<>>),
   releaseDate |-> Str(DATE), publisher |-> Str(ABC), featured |-> Bool(FALSE)]

BadGameFields ==
  [title |-> Num(5), price |-> Num(-1), originalPrice |-> Str(ABC),
   discount |-> Num(101), image |-> Str(<<>>), category |-> Bool(TRUE),
   platform |-> Arr(<<Num(5)>>), rating |-> Num(6), description |-> Null,
   requirements |-> Str(ABC), features |-> Str(ABC),
   releaseDate |-> Str(ABC), publisher |-> Arr(<<>>), featured |-> Str(ABC)]

WithFields(r) == [k \in Keys |-> IF k \in DOMAIN r THEN r[k] ELSE Undefined]

ValidGame == WithFields(ValidGameFields)
BadGame == WithFields(BadGameFields)
ValidUser ==
  WithFields([nombre |-> Str(ABC), email |-> Str(MAIL), password |-> Str(ABC)])
\* a user with the e-mail of ValidUser and another password
SameMailUser ==
  WithFields([nombre |-> Str(ABC), email |-> Str(MAIL), password |-> Str(MAIL2)])

\* a user with an empty password
BlankPasswordUser ==
  WithFields([nombre |-> Str(ABC), email |-> Str(MAIL2), password |-> Str(<<>>)])

\* the bodies of the requests of a sequence
SeqBodies ==
  {EmptyBody, ValidGame, BadGame, ValidUser, SameMailUser, BlankPasswordUser}

\* Object.keys(body)
ObjectKeys(b) == {k \in Keys : b[k] # Undefined}

VARIABLES
  body,        \* req.body of the request being composed or served
  editsLeft,   \* edits the client may still make to the body
  phase,       \* "compose", "await" (between the write and the read), "done"
  call,        \* the validator call made for this request, or NoCall
  resp,        \* the response sent, or NoResp
  pending,     \* the follow-up SELECT the handler still has to make
  writes,      \* the write statements this request sent to the store
  games,       \* table games of the relational store: id -> row
  nextId,      \* its AUTO_INCREMENT counter
  usuarios,    \* table usuarios: id -> row
  nextUserId,  \* its AUTO_INCREMENT counter
  docs,        \* collection games of the document store: id -> document
  nextDocId,   \* the next document id the store hands out
  clock,       \* CURRENT_TIMESTAMP
  before,      \* the stores as they were when the request arrived
  reqsLeft,    \* requests the client may still send after this one
  other        \* the response to a request served meanwhile, or NoResp

reqVars == <<body, editsLeft>>
gameStore == <<games, nextId>>
userStore == <<usuarios, nextUserId>>
docStore == <<docs, nextDocId>>
stores == <<games, nextId, usuarios, nextUserId, docs, nextDocId, clock>>
vars ==
  <<body, editsLeft, phase, call, resp, pending, writes, games, nextId,
    usuarios, nextUserId, docs, nextDocId, clock, before, reqsLeft, other>>

Ids == 1..MaxId
NoRow == [t |-> "norow"]
NoCall == [made |-> FALSE]
Called(requireAll, outcome) ==
  [made |-> TRUE, requireAll |-> requireAll, outcome |-> outcome]
NoResp == [status |-> 0]
NoPending == [op |-> "none"]

\* The client sets or removes one key of the body.
Edit ==
  /\ phase = "compose"
  /\ editsLeft > 0
  /\ \E f \in Keys :
       \E v \in FieldValues(f) \cup {Undefined} :
         /\ v # body[f]
         /\ body' = [body EXCEPT ![f] = v]
  /\ editsLeft' = editsLeft - 1
  /\ UNCHANGED <<phase, call, resp, pending, writes, stores, before, reqsLeft, other>>

\* validateGamePayload(body, requireAll) is called on the body.
CallValidator ==
  /\ phase = "compose"
  /\ \E requireAll \in BOOLEAN :
       call' = Called(requireAll, validateGamePayload(body, requireAll))
  /\ phase' = "done"
  /\ UNCHANGED <<reqVars, resp, pending, writes, stores, before, reqsLeft, other>>

(***************************************************************************)
(* The relational store behind pool.execute.  A statement is its SET (or   *)
(* column) list, each entry a column and whether its value is a "?"        *)
(* placeholder, and the bound values; an UPDATE ends in WHERE id=?, whose  *)
(* value is the last one bound (req.params.id).                            *)
(***************************************************************************)
InsertColumns ==
  << "title", "price", "original_price", "discount", "image", "category",
     "platform", "rating", "description", "requirements", "features",
     "release_date", "publisher", "featured" >>

UserColumns == << "nombre", "email", "password" >>

SeqRange(q) == {q[i] : i \in 1..Len(q)}
IndexOf(q, x) == CHOOSE i \in 1..Len(q) : q[i] = x

Placeholder(c) == [column |-> c, param |-> TRUE]
CurrentTimestamp(c) == [column |-> c, param |-> FALSE]

\* the number of "?" among the first i entries of a SET list
ParamIndex(set, i) == Cardinality({j \in 1..i : set[j].param})
Placeholders(set) == ParamIndex(set, Len(set))

\* execute() refuses undefined bind parameters and a wrong number of them
BindOk(placeholders, values) ==
  /\ placeholders = Len(values)
  /\ \A i \in 1..Len(values) : values[i] # Undefined

\* the row an INSERT of the columns and values creates at time now
InsertRow(columns, values, stamps, now) ==
  [c \in SeqRange(columns) \cup stamps |->
     IF c \in stamps THEN Num(now) ELSE values[IndexOf(columns, c)]]

\* the row an UPDATE with the SET list and values leaves at time now
UpdateRow(row, set, values, now) ==
  [c \in DOMAIN row |->
     IF \E i \in 1..Len(set) : set[i].column = c
     THEN LET i == CHOOSE i \in 1..Len(set) : set[i].column = c
          IN IF set[i].param THEN values[ParamIndex(set, i)] ELSE Num(now)
     ELSE row[c]]

\* an UPDATE without its WHERE clause
ExecUpdateEveryRow(table, set, values, now) ==
  [id \in DOMAIN table |->
     IF table[id] # NoRow THEN UpdateRow(table[id], set, values, now)
     ELSE NoRow]

\* UPDATE ... WHERE id=? on a table: the table afterwards
ExecUpdate(table, set, values, now) ==
  LET id == values[Len(values)].n
  IN IF id \in DOMAIN table /\ table[id] # NoRow
     THEN [table EXCEPT ![id] = UpdateRow(table[id], set, values, now)]
     ELSE table

\* result.affectedRows of that UPDATE
affectedRows(table, values) ==
  LET id == values[Len(values)].n
  IN IF id \in DOMAIN table /\ table[id] # NoRow THEN 1 ELSE 0

\* the statement as the handler sent it
Statement(kind, table, set, values) ==
  [kind |-> kind, table |-> table, set |-> set, values |-> values]

\* the values of POST and PUT /games, in the order of the columns
fullVals(b) ==
  << b.title, b.price, b.originalPrice, b.discount, b.image, b.category,
     JSONstringify(b.platform), b.rating, b.description,
     JSONstringify(b.requirements), JSONstringify(b.features), b.releaseDate,
     b.publisher, b.featured >>

GameStamps == {"created_at", "updated_at"}
UserStamps == {"created_at"}

StoredGame == InsertRow(InsertColumns, fullVals(ValidGame), GameStamps, 0)
OtherGame ==
  InsertRow(InsertColumns,
            fullVals([ValidGame EXCEPT !["title"] = Str(MAIL),
                                       !["price"] = Num(0)]),
            GameStamps, 0)
StoredUser ==
  InsertRow(UserColumns, <<Str(ABC), Str(MAIL), Str(ABC)>>, UserStamps, 0)
OtherUser ==
  InsertRow(UserColumns, <<Str(MAIL), Str(MAIL2), Str(MAIL2)>>, UserStamps, 0)

(***************************************************************************)
(* The document store: a document maps field names to values.              *)
(***************************************************************************)
DocFields == GameFields \cup {"image_url", "createdAt"}
StoredDoc ==
  [f \in DocFields |->
     IF f \in GameFields THEN ValidGame[f]
     ELSE IF f = "createdAt" THEN Num(0) ELSE Undefined]

Snapshot(g, u, d) == [games |-> g, usuarios |-> u, docs |-> d]

EmptyTable == [i \in Ids |-> NoRow]

\* The stores when the request arrives: empty, or holding two games, two
\* users and two documents, with identifiers 1 and 2.
InitStores ==
  /\ \/ /\ games = EmptyTable /\ nextId = 1
        /\ usuarios = EmptyTable /\ nextUserId = 1
        /\ docs = EmptyTable /\ nextDocId = 1
     \/ /\ games = [EmptyTable EXCEPT ![1] = StoredGame, ![2] = OtherGame]
        /\ nextId = 3
        /\ usuarios = [EmptyTable EXCEPT ![1] = StoredUser, ![2] = OtherUser]
        /\ nextUserId = 3
        /\ docs = [EmptyTable EXCEPT ![1] = StoredDoc, ![2] = StoredDoc]
        /\ nextDocId = 3
  /\ clock = 1
  /\ before = Snapshot(games, usuarios, docs)

\* The stores at the start of a sequence of requests: one game and one user
\* with identifier 1, no document.
InitStoresSeq ==
  /\ games = [EmptyTable EXCEPT ![1] = StoredGame] /\ nextId = 2
  /\ usuarios = [EmptyTable EXCEPT ![1] = StoredUser] /\ nextUserId = 2
  /\ docs = EmptyTable /\ nextDocId = 1
  /\ clock = 1
  /\ before = Snapshot(games, usuarios, docs)

InitRequest ==
  /\ reqsLeft = 0
  /\ other = NoResp
  /\ editsLeft = MaxEdits
  /\ phase = "compose"
  /\ call = NoCall
  /\ resp = NoResp
  /\ pending = NoPending
  /\ writes = <<>>

InitVal ==
  /\ body \in {EmptyBody, ValidGame, BadGame}
  /\ InitRequest
  /\ InitStores

NextVal == Edit \/ CallValidator

SpecVal == InitVal /\ [][NextVal]_vars

(***************************************************************************)
(* Responses.  keys are the keys of the JSON body next to the record (row) *)
(* it carries; messages are written without their accents.                 *)
(***************************************************************************)
Resp(op, id, status, keys, error, list, row) ==
  [op |-> op, id |-> id, status |-> status, keys |-> keys, error |-> error,
   list |-> list, row |-> row]

Fail(op, id, status, error) ==
  Resp(op, id, status, {"error"}, error, <<>>, Undefined)

Respond(r) ==
  /\ resp' = r
  /\ phase' = "done"
  /\ pending' = NoPending

\* the handler has written and now awaits its SELECT ... WHERE id = ?
Await(op, table, id, status) ==
  /\ pending' = [op |-> op, table |-> table, id |-> id, status |-> status]
  /\ phase' = "await"
  /\ resp' = resp

EmptyBodyMsg == "No se proporcionaron campos para actualizar"
NoValidFieldsMsg == "No hay campos validos para actualizar"
NoFieldsMsgV2 == "No hay campos para actualizar"

(***************************************************************************)
(* The update mapper of PATCH /api/games/:id: one (column, value) pair per *)
(* allowed key present in the body, in the order of the allow-list.        *)
(***************************************************************************)
\* the mapper without its table of column names
columnUnmapped(key) == key

column(key) ==
  CASE key = "originalPrice" -> "original_price"
    [] key = "releaseDate" -> "release_date"
    [] OTHER -> key

val(key, v) ==
  IF key \in {"platform", "requirements", "features"} THEN JSONstringify(v)
  ELSE v

RECURSIVE mapper(_, _, _)
mapper(b, keys, i) ==
  IF i > Len(keys) THEN <<>>
  ELSE (IF b[keys[i]] # Undefined
        THEN <<[column |-> column(keys[i]), val |-> val(keys[i], b[keys[i]])]>>
        ELSE <<>>)
       \o mapper(b, keys, i + 1)

setOf(pairs) == [i \in 1..Len(pairs) |-> Placeholder(pairs[i].column)]
valuesOf(pairs) == [i \in 1..Len(pairs) |-> pairs[i].val]

\* the handler without its test for an empty SET list
noValidFieldsNever(values) == FALSE

\* values.length === 0
noValidFields(values) == Len(values) = 0

\* the SET list of the game PATCH without updated_at
patchSetUnstamped(pairs) == setOf(pairs)

\* the SET list of the game PATCH: the pairs, then updated_at
patchSet(pairs) == setOf(pairs) \o <<CurrentTimestamp("updated_at")>>

\* the SET list of the usuarios PATCH: the pairs alone
patchSetUsuario(pairs) == setOf(pairs)

\* the SET list of PUT /api/games/:id
putSet ==
  [i \in 1..Len(InsertColumns) |-> Placeholder(InsertColumns[i])]
  \o <<CurrentTimestamp("updated_at")>>

\* pool.execute of an UPDATE of games, and what the handler does with
\* result.affectedRows
UpdateGames(op, id, set, values, notFound) ==
  IF ~BindOk(Placeholders(set) + 1, values)
  THEN /\ Respond(Fail(op, id, 500, "bind"))
       /\ UNCHANGED <<writes, stores>>
  ELSE /\ writes' = <<Statement("UPDATE", "games", set, values)>>
       /\ games' = ExecUpdate(games, set, values, clock)
       /\ clock' = clock + 1
       /\ UNCHANGED <<nextId, userStore, docStore>>
       /\ IF affectedRows(games, values) = 0
          THEN Respond(Fail(op, id, 404, notFound))
          ELSE Await(op, "games", id, 200)

\* POST /games
postGame ==
  /\ phase = "compose"
  /\ LET out == validateGamePayload(body, TRUE)
     IN /\ call' = Called(TRUE, out)
        /\ IF Len(out.errors) > 0
           THEN /\ Respond(Resp("postGame", 0, 400, {"error", "missing"},
                                "Faltan campos obligatorios", out.errors,
                                Undefined))
                /\ UNCHANGED <<writes, stores>>
           ELSE /\ nextId \in Ids
                /\ writes' = <<Statement("INSERT", "games",
                                         setOf([i \in 1..Len(InsertColumns) |->
                                                  [column |-> InsertColumns[i]]]),
                                         fullVals(body))>>
                /\ games' = [games EXCEPT ![nextId] =
                               InsertRow(InsertColumns, fullVals(body),
                                         GameStamps, clock)]
                /\ nextId' = nextId + 1
                /\ clock' = clock + 1
                /\ UNCHANGED <<userStore, docStore>>
                /\ Await("postGame", "games", nextId, 201)
  /\ UNCHANGED <<reqVars, before, reqsLeft, other>>

\* PUT /api/games/:id
putGame ==
  /\ phase = "compose"
  /\ \E id \in Ids :
       LET out == validateGamePayload(body, TRUE)
       IN /\ call' = Called(TRUE, out)
          /\ IF Len(out.errors) > 0
             THEN /\ Respond(Resp("putGame", id, 400, {"error", "missing"},
                       "Faltan campos obligatorios o tienen formato invalido",
                       out.errors, Undefined))
                  /\ UNCHANGED <<writes, stores>>
             ELSE UpdateGames("putGame", id, putSet, fullVals(body) \o <<Num(id)>>,
                              "Juego no encontrado")
  /\ UNCHANGED <<reqVars, before, reqsLeft, other>>

\* PATCH /api/games/:id
patchGame ==
  /\ phase = "compose"
  /\ \E id \in Ids :
       IF ObjectKeys(body) = {}
       THEN /\ Respond(Fail("patchGame", id, 400, EmptyBodyMsg))
            /\ UNCHANGED <<call, writes, stores>>
       ELSE LET out == validateGamePayload(body, FALSE)
                pairs == mapper(body, allowed, 1)
            IN /\ call' = Called(FALSE, out)
               /\ IF out.threw
                  THEN /\ Respond(Fail("patchGame", id, 500, "TypeError"))
                       /\ UNCHANGED <<writes, stores>>
                  ELSE IF Len(out.errors) > 0
                  THEN /\ Respond(Resp("patchGame", id, 400,
                                       {"error", "details"},
                                       "Payload invalido", out.errors,
                                       Undefined))
                       /\ UNCHANGED <<writes, stores>>
                  ELSE IF noValidFields(valuesOf(pairs))
                  THEN /\ Respond(Fail("patchGame", id, 400, NoValidFieldsMsg))
                       /\ UNCHANGED <<writes, stores>>
                  ELSE UpdateGames("patchGame", id, patchSet(pairs),
                                   valuesOf(pairs) \o <<Num(id)>>,
                                   "Juego no encontrado")
  /\ UNCHANGED <<reqVars, before, reqsLeft, other>>

\* PATCH /api/games/:id of the older copy
patchGameV2 ==
  /\ phase = "compose"
  /\ \E id \in Ids :
       LET out == validateGamePayloadV2(body, FALSE)
           pairs == mapper(body, allowed, 1)
       IN /\ call' = Called(FALSE, out)
          /\ IF Len(out.errors) > 0
             THEN /\ Respond(Resp("patchGameV2", id, 400, {"error", "details"},
                                  "Payload invalido", out.errors, Undefined))
                  /\ UNCHANGED <<writes, stores>>
             ELSE IF noValidFields(valuesOf(pairs))
             THEN /\ Respond(Fail("patchGameV2", id, 400, NoFieldsMsgV2))
                  /\ UNCHANGED <<writes, stores>>
             ELSE UpdateGames("patchGameV2", id, patchSet(pairs),
                              valuesOf(pairs) \o <<Num(id)>>, "Not found")
  /\ UNCHANGED <<reqVars, before, reqsLeft, other>>

\* the SELECT * FROM <table> WHERE id = ? after a write, and the response
FollowUpRead ==
  /\ phase = "await"
  /\ LET table == IF pending.table = "games" THEN games ELSE usuarios
         row == IF table[pending.id] = NoRow THEN Undefined
                ELSE table[pending.id]
     IN Respond(Resp(pending.op, pending.id, pending.status, {}, "", <<>>,
                     row))
  /\ UNCHANGED <<reqVars, call, writes, stores, before, reqsLeft, other>>

(***************************************************************************)
(* The usuarios handlers of the relational server.                         *)
(***************************************************************************)
\* POST /api/usuarios
postUsuario ==
  /\ phase = "compose"
  /\ LET vals == <<body.nombre, body.email, body.password>>
     IN IF ~BindOk(Len(UserColumns), vals)
        THEN /\ Respond(Fail("postUsuario", 0, 500, "bind"))
             /\ UNCHANGED <<writes, stores>>
        ELSE /\ nextUserId \in Ids
             /\ writes' = <<Statement("INSERT", "usuarios",
                                      [i \in 1..Len(UserColumns) |->
                                         Placeholder(UserColumns[i])], vals)>>
             /\ usuarios' = [usuarios EXCEPT ![nextUserId] =
                               InsertRow(UserColumns, vals, UserStamps, clock)]
             /\ nextUserId' = nextUserId + 1
             /\ clock' = clock + 1
             /\ UNCHANGED <<gameStore, docStore>>
             /\ Await("postUsuario", "usuarios", nextUserId, 201)
  /\ UNCHANGED <<reqVars, call, before, reqsLeft, other>>

\* PATCH /api/usuarios/:id
patchUsuario ==
  /\ phase = "compose"
  /\ \E id \in Ids :
       IF ObjectKeys(body) = {}
       THEN /\ Respond(Fail("patchUsuario", id, 400, EmptyBodyMsg))
            /\ UNCHANGED <<writes, stores>>
       ELSE LET pairs == mapper(body, allowedUsuario, 1)
                set == patchSetUsuario(pairs)
                values == valuesOf(pairs) \o <<Num(id)>>
            IN IF noValidFields(valuesOf(pairs))
               THEN /\ Respond(Fail("patchUsuario", id, 400, NoValidFieldsMsg))
                    /\ UNCHANGED <<writes, stores>>
               ELSE /\ writes' = <<Statement("UPDATE", "usuarios", set, values)>>
                    /\ usuarios' = ExecUpdate(usuarios, set, values, clock)
                    /\ clock' = clock + 1
                    /\ UNCHANGED <<nextUserId, gameStore, docStore>>
                    /\ IF affectedRows(usuarios, values) = 0
                       THEN Respond(Fail("patchUsuario", id, 404,
                                         "Usuario no encontrado"))
                       ELSE Await("patchUsuario", "usuarios", id, 200)
  /\ UNCHANGED <<reqVars, call, before, reqsLeft, other>>

GenericLoginMsg == "Credenciales invalidas"

\* SELECT * FROM usuarios WHERE email = ?: the identifiers of the rows
rowsByEmail(email) ==
  {id \in Ids : usuarios[id] # NoRow /\ usuarios[id].email = email}

\* the stored user without its password
safeUser(user) == [c \in (DOMAIN user) \ {"password"} |-> user[c]]

\* a login that names the wrong password
loginCheckTellsApart(user, password) ==
  IF user.password # password
  THEN Fail("login", 0, 401, "Contrasena incorrecta")
  ELSE Resp("login", 0, 200, {"message", "usuario"}, "", <<>>, safeUser(user))

\* the response of the login, given the row the SELECT returned first
loginCheck(user, password) ==
  IF user.password # password
  THEN Fail("login", 0, 401, GenericLoginMsg)
  ELSE Resp("login", 0, 200, {"message", "usuario"}, "", <<>>, safeUser(user))

\* POST /api/usuarios/login
login ==
  /\ phase = "compose"
  /\ IF ~Truthy(body.email) \/ ~Truthy(body.password)
     THEN Respond(Fail("login", 0, 400,
                       "El correo y la contrasena son obligatorios"))
     ELSE IF rowsByEmail(body.email) = {}
     THEN Respond(Fail("login", 0, 401, GenericLoginMsg))
     ELSE \E id \in rowsByEmail(body.email) :
            Respond(loginCheck(usuarios[id], body.password))
  /\ UNCHANGED <<reqVars, call, writes, stores, before, reqsLeft, other>>

(***************************************************************************)
(* Reads and removes.  These requests carry no payload.                    *)
(***************************************************************************)
NoPayload == ObjectKeys(body) = {}

\* the rows of SELECT * FROM <table> ORDER BY id DESC, from identifier i down
RECURSIVE selectDesc(_, _)
selectDesc(table, i) ==
  IF i = 0 THEN <<>>
  ELSE (IF table[i] # NoRow THEN <<[id |-> i, row |-> table[i]]>> ELSE <<>>)
       \o selectDesc(table, i - 1)

\* a DELETE that removes nothing
ExecDeleteNothing(table, id) == table

\* DELETE FROM <table> WHERE id=?: the table afterwards
ExecDelete(table, id) == [table EXCEPT ![id] = NoRow]

\* the response of a remove, from result.affectedRows
deleted(op, table, id) ==
  IF affectedRows(table, <<Num(id)>>) = 0
  THEN Fail(op, id, 404, "Not found")
  ELSE Resp(op, id, 204, {}, "", <<>>, Undefined)

\* the response of a read of one record
selected(op, table, id, notFound) ==
  IF table[id] = NoRow THEN Fail(op, id, 404, notFound)
  ELSE Resp(op, id, 200, {}, "", <<>>, table[id])

UserNotFoundMsg == "No se encontro el usuario, fue borrado o nunca existio"

\* GET /api/games
getGames ==
  /\ phase = "compose"
  /\ NoPayload
  /\ Respond(Resp("getGames", 0, 200, {}, "", selectDesc(games, MaxId),
                  Undefined))
  /\ UNCHANGED <<reqVars, call, writes, stores, before, reqsLeft, other>>

\* GET /api/games/:id
getGame ==
  /\ phase = "compose"
  /\ NoPayload
  /\ \E id \in Ids : Respond(selected("getGame", games, id, "Not found"))
  /\ UNCHANGED <<reqVars, call, writes, stores, before, reqsLeft, other>>

\* DELETE /api/games/:id
deleteGame ==
  /\ phase = "compose"
  /\ NoPayload
  /\ \E id \in Ids :
       /\ writes' = <<Statement("DELETE", "games", <<>>, <<Num(id)>>)>>
       /\ games' = ExecDelete(games, id)
       /\ Respond(deleted("deleteGame", games, id))
  /\ UNCHANGED <<reqVars, call, nextId, userStore, docStore, clock, before,
                 reqsLeft, other>>

\* DELETE /api/games/:id of another client, served between the write of
\* this request and its follow-up SELECT, on the same identifier
deleteGameMeanwhile ==
  /\ phase = "await"
  /\ pending.table = "games"
  /\ other = NoResp
  /\ games' = ExecDelete(games, pending.id)
  /\ other' = deleted("deleteGame", games, pending.id)
  /\ UNCHANGED <<reqVars, phase, call, resp, pending, writes, nextId,
                 userStore, docStore, clock, before, reqsLeft>>

\* GET /api/usuarios
getUsuarios ==
  /\ phase = "compose"
  /\ NoPayload
  /\ Respond(Resp("getUsuarios", 0, 200, {}, "", selectDesc(usuarios, MaxId),
                  Undefined))
  /\ UNCHANGED <<reqVars, call, writes, stores, before, reqsLeft, other>>

\* GET /api/usuarios/:id
getUsuario ==
  /\ phase = "compose"
  /\ NoPayload
  /\ \E id \in Ids :
       Respond(selected("getUsuario", usuarios, id, UserNotFoundMsg))
  /\ UNCHANGED <<reqVars, call, writes, stores, before, reqsLeft, other>>

\* DELETE /api/usuarios/:id
deleteUsuario ==
  /\ phase = "compose"
  /\ NoPayload
  /\ \E id \in Ids :
       /\ writes' = <<Statement("DELETE", "usuarios", <<>>, <<Num(id)>>)>>
       /\ usuarios' = ExecDelete(usuarios, id)
       /\ Respond(deleted("deleteUsuario", usuarios, id))
  /\ UNCHANGED <<reqVars, call, nextUserId, gameStore, docStore, clock,
                 before, reqsLeft, other>>

\* the SET list of PUT /api/usuarios/:id
putSetUsuario == [i \in 1..Len(UserColumns) |-> Placeholder(UserColumns[i])]

\* PUT /api/usuarios/:id
putUsuario ==
  /\ phase = "compose"
  /\ \E id \in Ids :
       IF ~Truthy(body.nombre) \/ ~Truthy(body.email) \/ ~Truthy(body.password)
       THEN /\ Respond(Fail("putUsuario", id, 400, "Faltan campos requeridos"))
            /\ UNCHANGED <<writes, stores>>
       ELSE LET values == <<body.nombre, body.email, body.password, Num(id)>>
            IN /\ writes' = <<Statement("UPDATE", "usuarios", putSetUsuario,
                                        values)>>
               /\ usuarios' = ExecUpdate(usuarios, putSetUsuario, values, clock)
               /\ clock' = clock + 1
               /\ UNCHANGED <<nextUserId, gameStore, docStore>>
               /\ IF affectedRows(usuarios, values) = 0
                  THEN Respond(Fail("putUsuario", id, 404, UserNotFoundMsg))
                  ELSE Respond(Resp("putUsuario", id, 200,
                                    {"id", "nombre", "email"}, "", <<>>,
                                    [id |-> Num(id), nombre |-> body.nombre,
                                     email |-> body.email]))
  /\ UNCHANGED <<reqVars, call, before, reqsLeft, other>>

(***************************************************************************)
(* The handlers of the document-store server.                              *)
(***************************************************************************)
\* the "all fields are required" test of POST /games
fsMissing(b) ==
  \/ ~Truthy(b.title) \/ b.price = Undefined \/ b.originalPrice = Undefined
  \/ b.discount = Undefined \/ ~Truthy(b.image) \/ ~Truthy(b.category)
  \/ ~Truthy(b.platform) \/ b.rating = Undefined \/ ~Truthy(b.description)
  \/ ~Truthy(b.requirements)
  \/ \E p \in ReqProps : ~Truthy(Prop(b.requirements, p))
  \/ ~Truthy(b.features) \/ ~Truthy(b.releaseDate) \/ ~Truthy(b.publisher)
  \/ b.featured = Undefined

newGame(b, now) ==
  [f \in DocFields |->
     IF f \in GameFields THEN b[f]
     ELSE IF f = "createdAt" THEN Num(now) ELSE Undefined]

\* POST /games
fsPostGame ==
  /\ phase = "compose"
  /\ IF fsMissing(body)
     THEN /\ Respond(Fail("fsPostGame", 0, 400, "Faltan campos obligatorios"))
          /\ UNCHANGED <<writes, stores>>
     ELSE /\ nextDocId \in Ids
          /\ writes' = <<Statement("add", "docs", <<>>, <<newGame(body, clock)>>)>>
          /\ docs' = [docs EXCEPT ![nextDocId] = newGame(body, clock)]
          /\ nextDocId' = nextDocId + 1
          /\ clock' = clock + 1
          /\ UNCHANGED <<gameStore, userStore>>
          /\ Respond(Resp("fsPostGame", nextDocId, 201, {}, "", <<>>,
                          newGame(body, clock)))
  /\ UNCHANGED <<reqVars, call, before, reqsLeft, other>>

updatedGameFields == {"title", "price", "platform", "image_url"}

\* const updatedGame = { title, price, platform, image_url }
updatedGame(b) == [f \in updatedGameFields |-> b[f]]

\* doc(id).update(data) rejects an undefined value and a missing document
fsUpdateThrows(id, data) ==
  \/ \E f \in DOMAIN data : data[f] = Undefined
  \/ docs[id] = NoRow

\* PUT /games/:id
fsPutGame ==
  /\ phase = "compose"
  /\ \E id \in Ids :
       IF fsUpdateThrows(id, updatedGame(body))
       THEN /\ Respond(Fail("fsPutGame", id, 500, "update"))
            /\ UNCHANGED <<writes, stores>>
       ELSE /\ writes' = <<Statement("update", "docs", <<>>,
                                     <<updatedGame(body), id>>)>>
            /\ docs' = [docs EXCEPT ![id] =
                          [f \in DocFields |->
                             IF f \in updatedGameFields THEN body[f]
                             ELSE docs[id][f]]]
            /\ clock' = clock + 1
            /\ UNCHANGED <<nextDocId, gameStore, userStore>>
            /\ Respond(Resp("fsPutGame", id, 200, {}, "", <<>>,
                            updatedGame(body)))
  /\ UNCHANGED <<reqVars, call, before, reqsLeft, other>>

\* DELETE /games/:id: doc(id).delete() succeeds whether or not the document
\* exists
fsDeleteGame ==
  /\ phase = "compose"
  /\ NoPayload
  /\ \E id \in Ids :
       /\ writes' = <<Statement("delete", "docs", <<>>, <<id>>)>>
       /\ docs' = ExecDelete(docs, id)
       /\ Respond(Resp("fsDeleteGame", id, 204, {}, "", <<>>, Undefined))
  /\ UNCHANGED <<reqVars, call, nextDocId, gameStore, userStore, clock, before,
                 reqsLeft, other>>

\* The client sends its next request, once the last one was answered.
NewRequest ==
  /\ phase = "done"
  /\ reqsLeft > 0
  /\ reqsLeft' = reqsLeft - 1
  /\ body' \in SeqBodies
  /\ phase' = "compose"
  /\ call' = NoCall
  /\ resp' = NoResp
  /\ pending' = NoPending
  /\ writes' = <<>>
  /\ other' = NoResp
  /\ before' = Snapshot(games, usuarios, docs)
  /\ UNCHANGED <<editsLeft, stores>>

Init ==
  /\ body \in {EmptyBody, ValidGame, BadGame, ValidUser}
  /\ InitRequest
  /\ InitStores

Next ==
  \/ Edit
  \/ postGame
  \/ putGame
  \/ patchGame
  \/ patchGameV2
  \/ FollowUpRead
  \/ postUsuario
  \/ patchUsuario
  \/ login
  \/ fsPostGame
  \/ fsPutGame
  \/ getGames
  \/ getGame
  \/ deleteGame
  \/ deleteGameMeanwhile
  \/ getUsuarios
  \/ getUsuario
  \/ deleteUsuario
  \/ putUsuario
  \/ fsDeleteGame

Spec == Init /\ [][Next]_vars

(***************************************************************************)
(* Sequences of requests to the relational server: each request carries    *)
(* one of a few bodies, unedited.                                          *)
(***************************************************************************)
InitSeq ==
  /\ body \in SeqBodies
  /\ editsLeft = 0
  /\ reqsLeft = MaxRequests - 1
  /\ other = NoResp
  /\ phase = "compose"
  /\ call = NoCall
  /\ resp = NoResp
  /\ pending = NoPending
  /\ writes = <<>>
  /\ InitStoresSeq

NextSeq ==
  \/ NewRequest
  \/ postGame
  \/ putGame
  \/ patchGame
  \/ FollowUpRead
  \/ getGames
  \/ getGame
  \/ deleteGame
  \/ postUsuario
  \/ putUsuario
  \/ patchUsuario
  \/ deleteUsuario
  \/ getUsuarios
  \/ getUsuario
  \/ login

SpecSeq == InitSeq /\ [][NextSeq]_vars

(***************************************************************************)
(* The defect messages, by the field they name.                            *)
(***************************************************************************)
FullMsg ==
  [title |-> "title (string)", price |-> "price (number >= 0)",
   originalPrice |-> "originalPrice (number >= 0)",
   discount |-> "discount (number 0-100)", image |-> "image (string URL)",
   category |-> "category (string)",
   platform |-> "platform (array of strings)",
   rating |-> "rating (number 0-5)", description |-> "description (string)",
   requirements |-> "requirements (object)",
   features |-> "features (array of strings)",
   releaseDate |-> "releaseDate (YYYY-MM-DD)",
   publisher |-> "publisher (string)", featured |-> "featured (boolean)"]

PartialMsg ==
  [title |-> "title debe ser un string no vacio",
   price |-> "price debe ser un numero >= 0",
   originalPrice |-> "originalPrice debe ser un numero >= 0",
   discount |-> "discount debe ser un numero entre 0-100",
   image |-> "image debe ser un string no vacio",
   category |-> "category debe ser un string no vacio",
   platform |-> "platform debe ser un array de strings",
   rating |-> "rating debe ser un numero entre 0-5",
   description |-> "description debe ser un string no vacio",
   requirements |-> "requirements debe ser un objeto",
   features |-> "features debe ser un array de strings",
   releaseDate |-> "releaseDate debe tener formato YYYY-MM-DD",
   publisher |-> "publisher debe ser un string no vacio",
   featured |-> "featured debe ser un boolean"]

\* the messages that name sub-field p of requirements
SubNaming(p) ==
  {"requirements." \o p \o " (string)",
   "requirements." \o p \o " debe ser un string"}

\* the messages that name field f
Naming(f) ==
  {FullMsg[f], PartialMsg[f]}
  \cup (IF f = "requirements" THEN UNION {SubNaming(p) : p \in ReqProps}
        ELSE {})

HasDefect(errors, f) == \E i \in 1..Len(errors) : errors[i] \in Naming(f)
HasSubDefect(errors, p) == \E i \in 1..Len(errors) : errors[i] \in SubNaming(p)

(***************************************************************************)
(* The rule of each field as the data model words it: what a value must    *)
(* be to be acceptable in a complete record, and in a partial one.         *)
(***************************************************************************)
NonEmptyText(v) == v.t = "string" /\ ~IsJsonText(v) /\ v.s # <<>>
TextSequence(v) ==
  v.t = "array" /\ \A i \in 1..Len(v.items) : v.items[i].t = "string"
InRange(v, lo, hi) == v.t = "number" /\ lo <= v.n /\ v.n <= hi

RuleFull(f, v) ==
  CASE f \in TextFields -> NonEmptyText(v)
    [] f \in {"price", "originalPrice"} -> v.t = "number" /\ v.n >= 0
    [] f = "discount" -> InRange(v, 0, 100)
    [] f = "rating" -> InRange(v, 0, 5)
    [] f \in {"platform", "features"} -> TextSequence(v)
    [] f = "requirements" ->
         v.t = "object" /\ \A p \in ReqProps : NonEmptyText(v.props[p])
    [] f = "releaseDate" -> v.t = "string" /\ DatePattern(v)
    [] f = "featured" -> v.t = "boolean"

RulePartial(f, v) ==
  \/ v = Undefined
  \/ CASE f \in TextFields -> NonEmptyText(v) /\ ~TrimIsEmpty(v)
       [] f = "requirements" ->
            /\ v.t = "object"
            /\ \A p \in ReqProps :
                 v.props[p] = Undefined \/ v.props[p].t = "string"
       [] OTHER -> RuleFull(f, v)

Rule(f, v, requireAll) ==
  IF requireAll THEN RuleFull(f, v) ELSE RulePartial(f, v)

Violated(b, requireAll) == {f \in GameFields : ~Rule(f, b[f], requireAll)}

ValidatorDone == phase = "done" /\ call.made

\* C1: in full mode every omitted required field is named by a defect, and
\* a body whose fourteen fields all have a valid type and range yields an
\* empty defect list.
C1_FullRequiresAll ==
  (ValidatorDone /\ call.requireAll) =>
    /\ ~call.outcome.threw
    /\ \A f \in GameFields :
         body[f] = Undefined => HasDefect(call.outcome.errors, f)
    /\ (\A f \in GameFields : RuleFull(f, body[f]))
         => call.outcome.errors = <<>>

C1_Witness ==
  /\ ValidatorDone /\ call.requireAll
  /\ body.featured = Undefined
  /\ \A f \in GameFields \ {"featured"} : body[f] = ValidGame[f]
  /\ call.outcome.errors = <<"featured (boolean)">>

\* C2: every validator call returns one list that holds an entry for each
\* top-level field whose rule is violated, so k violated rules give at
\* least k defects.
C2_AllDefectsCollected ==
  ValidatorDone =>
    /\ ~call.outcome.threw
    /\ \A f \in Violated(body, call.requireAll) :
         HasDefect(call.outcome.errors, f)
    /\ Len(call.outcome.errors) >= Cardinality(Violated(body, call.requireAll))

\* The same, for the calls that return.
AllDefectsCollectedWhenReturned ==
  (ValidatorDone /\ ~call.outcome.threw) =>
    /\ \A f \in Violated(body, call.requireAll) :
         HasDefect(call.outcome.errors, f)
    /\ Len(call.outcome.errors) >= Cardinality(Violated(body, call.requireAll))


\* the partial call in this state reported a defect naming f
PartialDefect(f) ==
  ~call.outcome.threw /\ HasDefect(call.outcome.errors, f)

\* full validation of the valid complete record with f = v names f
FullDefect(f, v) ==
  HasDefect(validateGamePayload([ValidGame EXCEPT ![f] = v], TRUE).errors, f)

\* full validation of the valid complete record with requirements.p = v
\* names sub-field p
FullSubDefect(p, v) ==
  HasSubDefect(
    validateGamePayload(
      [ValidGame EXCEPT !["requirements"] = SetProp(ReqOK, p, v)],
      TRUE).errors, p)

OnlyField(f) == ObjectKeys(body) = {f}
OnlySubField(p) ==
  /\ OnlyField("requirements")
  /\ body.requirements.t = "object"
  /\ {q \in ReqProps : body.requirements.props[q] # Undefined} = {p}

PartialDone == ValidatorDone /\ ~call.requireAll

\* C3 as stated: on a body holding one field (or one requirements
\* sub-field), partial mode reports a defect for it exactly when full mode
\* does on the otherwise valid complete record.
C3_SameStrictness ==
  PartialDone =>
    /\ \A f \in GameFields :
         OnlyField(f) => (PartialDefect(f) <=> FullDefect(f, body[f]))
    /\ \A p \in ReqProps :
         OnlySubField(p) =>
           (HasSubDefect(call.outcome.errors, p)
              <=> FullSubDefect(p, body.requirements.props[p]))

SameRuleFields ==
  {"price", "originalPrice", "discount", "platform", "rating", "features",
   "releaseDate", "featured"}

\* C3 as amended: the two modes agree on the eight fields that are not
\* text or requirements; on a text field partial mode reports a defect
\* exactly when full mode does or the text is whitespace-only; on
\* requirements and its sub-fields a partial defect implies a full one.
C3_StrictnessByField ==
  PartialDone =>
    /\ \A f \in SameRuleFields :
         OnlyField(f) => (PartialDefect(f) <=> FullDefect(f, body[f]))
    /\ \A f \in TextFields :
         OnlyField(f) =>
           (PartialDefect(f) <=>
              (FullDefect(f, body[f])
                 \/ (body[f].t = "string" /\ TrimIsEmpty(body[f]))))
    /\ OnlyField("requirements") =>
         (PartialDefect("requirements")
            => FullDefect("requirements", body.requirements))
    /\ \A p \in ReqProps :
         OnlySubField(p) =>
           (HasSubDefect(call.outcome.errors, p)
              => FullSubDefect(p, body.requirements.props[p]))

C3_Witness ==
  /\ PartialDone
  /\ OnlyField("title")
  /\ body.title = Str(SPACE)
  /\ PartialDefect("title")
  /\ ~FullDefect("title", body.title)


(***************************************************************************)
(* Claims about the handlers.                                              *)
(***************************************************************************)
\* the request was served by handler op (its response may still await the
\* follow-up read)
Served(op) ==
  \/ phase = "done" /\ resp.op = op
  \/ phase = "await" /\ pending.op = op

Answered(op) == phase = "done" /\ resp.op = op

StoresUnchanged == Snapshot(games, usuarios, docs) = before
NoWrite == writes = <<>> /\ StoresUnchanged

\* C4: the validator always returns a defect list, and a modify request
\* with a present field that violates its rule is answered 400 with the
\* defect list.
C4_ValidatorTotal ==
  /\ call.made => ~call.outcome.threw
  /\ (Answered("patchGame") /\ Violated(body, FALSE) # {}) =>
       /\ resp.status = 400
       /\ resp.keys = {"error", "details"}
       /\ resp.list # <<>>

\* the message the handler gives a body without any allow-listed field
NoValidMsgOf(op) == IF op = "patchGameV2" THEN NoFieldsMsgV2 ELSE NoValidFieldsMsg

\* C5: partial validation of a body with zero fields yields zero defects,
\* and a modify of such a body is answered 400 with the "no fields
\* supplied" signal, distinct from the "no valid fields" one, raised before
\* the validator is called, without any write.
C5_EmptyBodyRejectedFirst ==
  ObjectKeys(body) = {} =>
    /\ validateGamePayload(body, FALSE) = Returned(<<>>)
    /\ \A op \in {"patchGame", "patchGameV2"} :
         Answered(op) =>
           /\ resp.status = 400
           /\ resp.keys = {"error"}
           /\ resp.error # NoValidMsgOf(op)
           /\ ~call.made
           /\ NoWrite

\* C6: in the relational server, a valid modify body whose only allowed
\* field is price sends one data pair followed by the last-modified pair;
\* a non-empty body without any allowed field maps to zero pairs and is
\* answered 400 with the "no valid fields" message, which differs from the
\* empty-body message, without any write.
C6_MapperSignals ==
  Served("patchGame") =>
    /\ (ObjectKeys(body) \cap GameFields = {"price"}
          /\ RulePartial("price", body.price)) =>
         /\ Len(writes) = 1
         /\ writes[1].set
              = <<Placeholder("price"), CurrentTimestamp("updated_at")>>
         /\ Len(writes[1].values) = 2
         /\ writes[1].values[1] = body.price
    /\ (ObjectKeys(body) # {} /\ ObjectKeys(body) \cap GameFields = {}) =>
         /\ mapper(body, allowed, 1) = <<>>
         /\ phase = "done"
         /\ resp.status = 400
         /\ resp.error = NoValidFieldsMsg
         /\ resp.error # EmptyBodyMsg
         /\ NoWrite

C6_Witness ==
  /\ Answered("patchGame")
  /\ ObjectKeys(body) = {"unknownField"}
  /\ resp.status = 400
  /\ resp.error = NoValidFieldsMsg
  /\ NoWrite

LastModified == CurrentTimestamp("updated_at")
ModifyOps == {"patchGame", "patchGameV2", "patchUsuario"}

\* C7 as stated: every write of a modify request, of a game or of a
\* usuario, carries the last-modified pair.
C7_EveryModifyStamped ==
  \A op \in ModifyOps :
    (Served(op) /\ writes # <<>>) => LastModified \in SeqRange(writes[1].set)

\* C7 as amended: every write of a game modify carries the last-modified
\* pair, as the last entry of its SET list; the write of a usuarios modify
\* carries placeholders for the fields present and no last-modified pair.
C7_GameModifyStamped ==
  /\ \A op \in {"patchGame", "patchGameV2"} :
       (Served(op) /\ writes # <<>>) =>
         /\ writes[1].set[Len(writes[1].set)] = LastModified
         /\ Len(writes[1].set) >= 2
  /\ (Served("patchUsuario") /\ writes # <<>>) =>
       /\ \A i \in 1..Len(writes[1].set) : writes[1].set[i].param
       /\ Len(writes[1].set) = Cardinality(ObjectKeys(body) \cap UserFields)

C7_Witness ==
  /\ Served("patchGame")
  /\ ObjectKeys(body) = {"featured"}
  /\ writes # <<>>
  /\ writes[1].set = <<Placeholder("featured"), LastModified>>

\* the storage key of a field, as the claim states it
StorageKey(k) ==
  CASE k = "originalPrice" -> "original_price"
    [] k = "releaseDate" -> "release_date"
    [] OTHER -> k

IsPresentKey(k) == body[k] # Undefined
\* the allowed fields present in the body, in allow-list order
PresentAllowed == SelectSeq(allowed, IsPresentKey)

\* C8: the data pairs of a game modify write are one per allowed field
\* present, in allow-list order, under the field's storage key (one-to-one),
\* with the serialized text of platform, requirements and features and the
\* unchanged value of any other field; the placeholders of the statement
\* are as many as the bound values.
C8_MapperPairs ==
  \A op \in {"patchGame", "patchGameV2"} :
    (Served(op) /\ writes # <<>>) =>
      LET set == writes[1].set
          values == writes[1].values
      IN /\ Len(set) = Len(PresentAllowed) + 1
         /\ \A i \in 1..Len(PresentAllowed) :
              LET k == PresentAllowed[i]
              IN /\ set[i] = Placeholder(StorageKey(k))
                 /\ IF k \in {"platform", "requirements", "features"}
                    THEN /\ typeof(values[i]) = "string"
                         /\ IsJsonText(values[i])
                         /\ values[i].json = body[k]
                    ELSE values[i] = body[k]
         /\ \A i, j \in 1..Len(PresentAllowed) :
              set[i].column = set[j].column => i = j
         /\ Placeholders(set) + 1 = Len(values)

C8_Witness ==
  /\ Served("patchGame")
  /\ writes # <<>>
  /\ GameFields \subseteq ObjectKeys(body)
  /\ Len(writes[1].set) = Len(allowed) + 1
  /\ body.discount = Num(100)

\* the stored users with the e-mail of the request
SameEmail == {id \in Ids : usuarios[id] # NoRow /\ usuarios[id].email = body.email}

\* C9: a login with a non-empty e-mail and password gets the same response
\* (401, the generic message, a body with the single key error) when no
\* stored user has the e-mail and when the stored users with the e-mail
\* have another password.
C9_LoginIndistinguishable ==
  (Answered("login") /\ Truthy(body.email) /\ Truthy(body.password)
     /\ \A id \in SameEmail : usuarios[id].password # body.password) =>
    resp = Fail("login", 0, 401, GenericLoginMsg)

C9_Witness ==
  /\ Answered("login")
  /\ SameEmail # {}
  /\ Truthy(body.password)
  /\ \A id \in SameEmail : usuarios[id].password # body.password
  /\ resp.status = 401

C9_WitnessNoAccount ==
  /\ Answered("login")
  /\ Truthy(body.email) /\ Truthy(body.password)
  /\ \E id \in Ids : usuarios[id] # NoRow
  /\ SameEmail = {}
  /\ resp.status = 401

FullOps == {"postGame", "putGame", "fsPostGame", "fsPutGame"}
PartialOps == {"patchGame", "patchGameV2"}

\* C10: a create, replace or modify of a game, in either variant, whose
\* payload fails the validation mode of the operation is answered 400 with
\* the defect list, sends no write and leaves the store unchanged.
C10_InvalidPayloadRejected ==
  /\ \A op \in FullOps :
       (Served(op) /\ Violated(body, TRUE) # {}) =>
         /\ phase = "done"
         /\ resp.status = 400
         /\ resp.list # <<>>
         /\ NoWrite
  /\ \A op \in PartialOps :
       (Served(op) /\ ObjectKeys(body) # {} /\ Violated(body, FALSE) # {}) =>
         /\ phase = "done"
         /\ resp.status = 400
         /\ resp.list # <<>>
         /\ NoWrite

\* The same, for the current relational server and the bodies on which
\* its validator returns.
InvalidPayloadRejectedRelational ==
  /\ \A op \in {"postGame", "putGame"} :
       (Served(op) /\ Violated(body, TRUE) # {}) =>
         phase = "done" /\ resp.status = 400 /\ resp.list # <<>> /\ NoWrite
  /\ (Served("patchGame") /\ ObjectKeys(body) # {}
        /\ Violated(body, FALSE) # {} /\ body.requirements # Null) =>
       phase = "done" /\ resp.status = 400 /\ resp.list # <<>> /\ NoWrite

(***************************************************************************)
(* Claims about single rules of the validator.                             *)
(***************************************************************************)
\* the validator call of this state returned a defect naming f
Defect(f) == HasDefect(call.outcome.errors, f)

Returns == ValidatorDone /\ ~call.outcome.threw

\* the largest value the rule of f accepts
Highest == [discount |-> 100, rating |-> 5]

\* C12: in both modes, a numeric discount or rating gets a defect exactly
\* when it is below 0 or above the upper bound of the field (100, 5), so 0
\* and the upper bound themselves are accepted; a numeric price or
\* originalPrice gets a defect exactly when it is negative.
C12_BoundsInclusive ==
  Returns =>
    /\ \A f \in {"discount", "rating"} :
         body[f].t = "number" =>
           (Defect(f) <=> (body[f].n < 0 \/ body[f].n > Highest[f]))
    /\ \A f \in {"price", "originalPrice"} :
         body[f].t = "number" => (Defect(f) <=> body[f].n < 0)

C12_Witness ==
  /\ Returns /\ call.requireAll
  /\ body.discount = Num(100)
  /\ body.rating = Num(5)
  /\ body.price = Num(5)
  /\ call.outcome.errors = <<>>

\* C13: in full mode platform or features given as a sequence with zero
\* elements gets no defect and the same field absent gets one; in partial
\* mode a sequence with zero elements gets no defect.
C13_EmptySequenceAccepted ==
  Returns =>
    \A f \in {"platform", "features"} :
      /\ body[f] = Arr(<<>>) => ~Defect(f)
      /\ (call.requireAll /\ body[f] = Undefined) => Defect(f)

C13_Witness ==
  /\ Returns /\ call.requireAll
  /\ body.platform = Arr(<<>>)
  /\ body.features = Arr(<<>>)
  /\ call.outcome.errors = <<>>

\* the defects of the list that name requirements or one of its sub-fields
RequirementsDefects ==
  SelectSeq(call.outcome.errors, LAMBDA m : m \in Naming("requirements"))

OtherFieldsChecked ==
  \A f \in GameFields \ {"requirements"} :
    ~RuleFull(f, body[f]) => Defect(f)

\* C14: in full mode, when requirements is absent or is not a record the
\* list holds exactly one defect about requirements, none about a sub-field,
\* and the other fields are still checked; when it is a record, each
\* sub-field that is missing or not non-empty text has its own defect.
C14_OneDefectWhenNotARecord ==
  (Returns /\ call.requireAll) =>
    /\ OtherFieldsChecked
    /\ IF body.requirements.t # "object"
       THEN RequirementsDefects = <<FullMsg.requirements>>
       ELSE /\ FullMsg.requirements \notin SeqRange(call.outcome.errors)
            /\ \A p \in ReqProps :
                 HasSubDefect(call.outcome.errors, p)
                   <=> ~NonEmptyText(body.requirements.props[p])

\* The same, a sequence set apart: full mode takes a sequence for a record
\* without sub-fields and reports the five of them.
RequirementsDefectsBySequence ==
  (Returns /\ call.requireAll) =>
    /\ OtherFieldsChecked
    /\ IF body.requirements.t \notin {"object", "array"}
       THEN RequirementsDefects = <<FullMsg.requirements>>
       ELSE /\ FullMsg.requirements \notin SeqRange(call.outcome.errors)
            /\ \A p \in ReqProps :
                 HasSubDefect(call.outcome.errors, p)
                   <=> ~NonEmptyText(Prop(body.requirements, p))

\* the text has the shape of four digits, hyphen, two digits, hyphen, two
\* digits
DateShaped(s) ==
  /\ Len(s) = 10
  /\ \A i \in 1..10 : IF i \in {5, 8} THEN s[i] = "-" ELSE s[i] \in Digits

\* C15: in both modes a releaseDate that is present gets a defect exactly
\* when it is not a text of the date shape; the text 2024-02-30, which is
\* no calendar date, gets none.
C15_DateByShapeOnly ==
  Returns =>
    /\ body.releaseDate # Undefined =>
         (Defect("releaseDate")
            <=> ~(body.releaseDate.t = "string" /\ DateShaped(body.releaseDate.s)))
    /\ body.releaseDate = Str(DATE) => ~Defect("releaseDate")

C15_Witness ==
  /\ Returns /\ ~call.requireAll
  /\ body.releaseDate = Str(DATE)
  /\ OnlyField("releaseDate")
  /\ call.outcome.errors = <<>>

(***************************************************************************)
(* Claims about the store.                                                 *)
(***************************************************************************)
\* the payload of the request is valid for operation op
ValidPayload(op) ==
  CASE op \in {"putGame", "fsPutGame"} -> Violated(body, TRUE) = {}
    [] op = "patchGame" ->
         ObjectKeys(body) \cap GameFields # {} /\ Violated(body, FALSE) = {}
    [] OTHER -> TRUE

\* the request named an identifier that the store did not hold
MissingGame == before.games[resp.id] = NoRow
MissingDoc == before.docs[resp.id] = NoRow

NotFoundUnchanged == resp.status = 404 /\ StoresUnchanged

\* C11: a replace, modify or remove with a valid payload that names an
\* identifier not in the store is answered 404 and leaves the store
\* unchanged, in the relational and in the document-store server.
C11_MissingIdNotFound ==
  /\ \A op \in {"putGame", "patchGame", "deleteGame"} :
       (Answered(op) /\ ValidPayload(op) /\ MissingGame) => NotFoundUnchanged
  /\ \A op \in {"fsPutGame", "fsDeleteGame"} :
       (Answered(op) /\ ValidPayload(op) /\ MissingDoc) => NotFoundUnchanged

\* The same, for the relational server alone.
MissingIdNotFoundRelational ==
  \A op \in {"putGame", "patchGame", "deleteGame"} :
    (Answered(op) /\ ValidPayload(op) /\ MissingGame) => NotFoundUnchanged

MissingIdRelationalReached ==
  /\ Answered("patchGame") /\ ValidPayload("patchGame") /\ MissingGame
  /\ resp.status = 404

\* JSON.parse of a stored text
JSONparse(v) == v.json

\* the game record a stored row holds
RowAsRecord(row) ==
  [f \in GameFields |->
     IF f \in {"platform", "requirements", "features"}
     THEN JSONparse(row[StorageKey(f)])
     ELSE row[StorageKey(f)]]

StoredIds == {id \in Ids : games[id] # NoRow}

WriteOps == {"postGame", "putGame", "patchGame"}
Succeeded(op) == Answered(op) /\ resp.status \in {200, 201}

\* C16: after a successful create, replace or modify of the relational
\* server, every stored game satisfies full validation: each of its
\* fourteen fields has a valid type and range, the five sub-fields of
\* requirements included.
C16_StoredGamesValid ==
  \A op \in WriteOps :
    Succeeded(op) =>
      \A id \in StoredIds :
        /\ \A f \in GameFields : RuleFull(f, RowAsRecord(games[id])[f])
        /\ validateFull(RowAsRecord(games[id])) = <<>>

\* The same, the sub-fields of requirements set apart: each is absent or a
\* text.
StoredGamesValidButSubFields ==
  \A op \in WriteOps :
    Succeeded(op) =>
      \A id \in StoredIds :
        LET record == RowAsRecord(games[id])
        IN /\ \A f \in GameFields \ {"requirements"} : RuleFull(f, record[f])
           /\ record.requirements.t = "object"
           /\ \A p \in ReqProps :
                record.requirements.props[p] = Undefined
                  \/ record.requirements.props[p].t = "string"

\* the columns a modify of the body may change in a row of the table
Changeable(fields, marker) ==
  {StorageKey(k) : k \in ObjectKeys(body) \cap fields} \cup marker

\* the table differs from what it was at most in the given columns of the
\* row id
OnlyChanged(table, was, id, columns) ==
  /\ \A c \in (DOMAIN table[id]) \ columns : table[id][c] = was[id][c]
  /\ \A j \in Ids \ {id} : table[j] = was[j]

\* C17: a successful modify of record id leaves every field of the record
\* that is not in the request body, the last-modified marker of a game
\* excepted, and every other record, as they were.
C17_ModifyFrame ==
  /\ (Succeeded("patchGame") /\ other = NoResp) =>
       /\ OnlyChanged(games, before.games, resp.id,
                      Changeable(GameFields, {"updated_at"}))
       /\ usuarios = before.usuarios
       /\ docs = before.docs
  /\ Succeeded("patchUsuario") =>
       /\ OnlyChanged(usuarios, before.usuarios, resp.id,
                      Changeable(UserFields, {}))
       /\ games = before.games
       /\ docs = before.docs

C17_Witness ==
  /\ Succeeded("patchGame")
  /\ ObjectKeys(body) = {"price"}
  /\ games[resp.id].price # before.games[resp.id].price
  /\ games[resp.id].updated_at # before.games[resp.id].updated_at
  /\ \E j \in Ids \ {resp.id} : games[j] # NoRow

\* C18: whatever request is served meanwhile, a 201 answer to a create and
\* a 200 answer to a replace or modify of a game carry the stored record of
\* the identifier.
C18_SuccessCarriesRecord ==
  \A op \in WriteOps :
    Succeeded(op) =>
      /\ resp.row # Undefined
      /\ resp.row = games[resp.id]

\* The same, when no other request was served between the write and the
\* read.
SuccessCarriesRecordAlone ==
  \A op \in WriteOps :
    (Succeeded(op) /\ other = NoResp) =>
      /\ resp.row # Undefined
      /\ resp.row = games[resp.id]

\* the stored users with the e-mail and the password of the request
Matching ==
  {id \in SameEmail : usuarios[id].password = body.password}

\* C19: after any sequence of user creates, replaces, modifies and removes,
\* a login is answered 200 if and only if some stored user has the e-mail
\* and the password of the request.
C19_LoginIffStored ==
  Answered("login") => (resp.status = 200 <=> Matching # {})

\* What does hold: a login is answered 200 only if some stored user has the
\* e-mail and the password; and when both are non-empty and one stored user
\* has the e-mail, it is answered 200 exactly when that user has the
\* password.
LoginOnlyIfStored ==
  Answered("login") =>
    /\ resp.status = 200 => Matching # {}
    /\ (Truthy(body.email) /\ Truthy(body.password)
          /\ Cardinality(SameEmail) = 1) =>
         (resp.status = 200 <=> Matching # {})

\* two stored users share an e-mail, and the one created last is refused
DuplicateEmailRefused ==
  /\ Answered("login")
  /\ Cardinality(SameEmail) = 2
  /\ Matching # {}
  /\ resp.status = 401

\* a user was created with an empty password and cannot log in
BlankPasswordRefused ==
  /\ Answered("login")
  /\ body.password = Str(<<>>)
  /\ Matching # {}
  /\ resp.status = 400

\* the identifier was given out by the counter and its row is gone: the
\* record was removed (the stores start without a gap below the counter)
Removed(table, counter, id) == id < counter /\ table[id] = NoRow

RemovedGame(id) == Removed(before.games, nextId, id)
RemovedUser(id) == Removed(before.usuarios, nextUserId, id)

GameOpsById == {"getGame", "putGame", "patchGame", "deleteGame"}
UserOpsById == {"getUsuario", "putUsuario", "patchUsuario", "deleteUsuario"}

\* the payload of a usuarios request is one its handler takes to the store
ValidUserPayload(op) ==
  CASE op = "putUsuario" ->
         Truthy(body.nombre) /\ Truthy(body.email) /\ Truthy(body.password)
    [] op = "patchUsuario" -> ObjectKeys(body) \cap UserFields # {}
    [] OTHER -> TRUE

\* the identifiers a read-all lists
Listed == {resp.list[i].id : i \in 1..Len(resp.list)}

\* a remove answered 204 leaves no row, and changes nothing of the other
\* table; a read-all lists no removed identifier
RemoveAndList ==
  /\ (Answered("deleteGame") /\ resp.status = 204) =>
       games[resp.id] = NoRow /\ usuarios = before.usuarios
  /\ (Answered("deleteUsuario") /\ resp.status = 204) =>
       usuarios[resp.id] = NoRow /\ games = before.games
  /\ Answered("getGames") => \A id \in Listed : ~RemovedGame(id)
  /\ Answered("getUsuarios") => \A id \in Listed : ~RemovedUser(id)

\* no step gives a removed identifier a row again
StaysRemoved ==
  \A id \in Ids :
    /\ Removed(games, nextId, id) => games'[id] = NoRow
    /\ Removed(usuarios, nextUserId, id) => usuarios'[id] = NoRow

\* C20 as stated: once a remove of id was answered 204, every later
\* read-one, replace, modify and remove of id is answered 404, no read-all
\* lists id, no create gives id a record again, and the remove of a game
\* changes no user and conversely.
C20_RemovalFinal ==
  /\ [](/\ RemoveAndList
        /\ \A op \in GameOpsById :
             (Answered(op) /\ RemovedGame(resp.id)) => resp.status = 404
        /\ \A op \in UserOpsById :
             (Answered(op) /\ RemovedUser(resp.id)) => resp.status = 404)
  /\ [][StaysRemoved]_vars

\* C20 as amended: a later replace or modify of id is answered 404 when its
\* payload is one the handler takes to the store, and is never answered
\* with a success.
C20_RemovedNeverServed ==
  /\ [](/\ RemoveAndList
        /\ \A op \in GameOpsById :
             (Answered(op) /\ RemovedGame(resp.id)) =>
               /\ resp.status \notin {200, 201, 204}
               /\ ValidPayload(op) => resp.status = 404
        /\ \A op \in UserOpsById :
             (Answered(op) /\ RemovedUser(resp.id)) =>
               /\ resp.status \notin {200, 201, 204}
               /\ ValidUserPayload(op) => resp.status = 404)
  /\ [][StaysRemoved]_vars

C20_Witness ==
  /\ Answered("getGame")
  /\ RemovedGame(resp.id)
  /\ resp.status = 404
  /\ \E id \in StoredIds : id > resp.id

=============================================================================
